---- MODULE Spec2Model ----
(***************************************************************************)
(* Loongson-3 SPI controller driver (loongson3_spi.c): bring-up            *)
(* (loongson3_spi_init), tear-down (loongson3_spi_shutdown) and the        *)
(* byte-at-a-time transaction (loongson3_spi_send_command), stepped one    *)
(* register access at a time against a register block whose Status and     *)
(* FIFO reads are answered by the hardware.                                *)
(***************************************************************************)
EXTENDS Integers, Sequences, FiniteSets, TLC

(* ---------------- program constants (#define lines) ---------------- *)
LOONGSON64C_SPI_BASE == 534774304
LOONGSON64G_SPI_BASE == 534774256
LOONGSON3_SPI_REG_SIZE == 16
SPICTRL_SPCR == 0
SPCR_MSTR == 16
SPCR_SPE == 64
SPICTRL_SPSR == 1
SPSR_RFEMPTY == 1
SPICTRL_FIFO == 2
SPICTRL_SFCP == 4
SFCP_MEMEN == 1
SPICTRL_SOFTCS == 5
SOFTCS_ASSERT == 1
SOFTCS_DESSERT == 17

(* ---------------- bounds of the model ---------------- *)
\* writecnt + readcnt of one send_command call
MaxXfer == 3
\* Status polls answered "read FIFO empty" during one send_command call
MaxPolls == 1
\* Status polls answered "read FIFO not empty" during the drain of init
MaxDrain == 2

(* ---------------- value sets the environment draws from ---------------- *)
NULL == "NULL"
\* the handle rphysmap hands back for a mapped block
MAPPED == "mapped"
\* values of the -cpu programmer parameter (NULL: not given)
CpuParams ==
  {NULL, "", "3b1500", "3a2000", "3b2000", "3a3000", "3b3000", "3a4000", "3b4000",
   "3a1000", "3A4000", "3a40000"}
\* register contents at process start
BootSPCR == {16, 175}
BootSFCP == {0, 255}
BootSOFTCS == {0, 255}
\* bytes the Status register answers: 4 = WFEMPTY alone (a byte waits in the read
\* FIFO), 5 = WFEMPTY | RFEMPTY (none does)
StatusVals == {4, 5}
\* bytes the FIFO register answers on a pop
FifoVals == {64, 239}
\* bytes of the caller's write buffer, and of the memory after its end
WriteBytes == {159, 170}
\* content of a result-buffer cell the driver has not stored to
UNSET == 0 - 1

(* ---------------- uint8_t arithmetic ---------------- *)
RECURSIVE BitAndN(_, _, _)
BitAndN(a, b, n) ==
  IF n = 0 THEN 0
  ELSE (IF a % 2 = 1 /\ b % 2 = 1 THEN 1 ELSE 0) + 2 * BitAndN(a \div 2, b \div 2, n - 1)

RECURSIVE BitOrN(_, _, _)
BitOrN(a, b, n) ==
  IF n = 0 THEN 0
  ELSE (IF a % 2 = 1 \/ b % 2 = 1 THEN 1 ELSE 0) + 2 * BitOrN(a \div 2, b \div 2, n - 1)

\* a & b, a | b, ~a on uint8_t
BitAnd(a, b) == BitAndN(a, b, 8)
BitOr(a, b) == BitOrN(a, b, 8)
BitNot(a) == 255 - a

(* ---------------- state ---------------- *)
VARIABLES
  pc,            \* position of the driver: between calls, or inside one
  op,            \* the call being executed, or the last one that returned
  ret,           \* return value of the last call that returned
  cpu,           \* init's local: the extracted -cpu parameter
  msg,           \* last msg_perr line
  warned,        \* the "Read engine is not enabled" warning was printed
  spictrl_base,  \* static uint8_t *spictrl_base
  regs,          \* the register block: SPCR, SFCP, SOFTCS contents
  boot,          \* SPCR and SFCP as they were at process start
  log,           \* register accesses of the current (or last) call, in order
  mapcalls,      \* calls made to rphysmap
  shutdown_fn,   \* register_shutdown accepted loongson3_spi_shutdown
  spi_master,    \* register_spi_master was called with spi_master_loongson3
  nullacc,       \* a register access went through a NULL spictrl_base
  writearr,      \* send_command: the caller's write buffer, writecnt bytes
  writecnt,
  readcnt,
  readarr,       \* send_command: the caller's result buffer
  i,             \* send_command: loop counter
  pushed,        \* send_command: writearr indices loaded for each FIFO push
  polls,         \* empty-FIFO answers given in this send_command call
  drained        \* non-empty answers given in the drain of init

vars ==
  <<pc, op, ret, cpu, msg, warned, spictrl_base, regs, boot, log, mapcalls,
    shutdown_fn, spi_master, nullacc, writearr, writecnt, readcnt, readarr, i,
    pushed, polls, drained>>

cmdvars == <<writearr, writecnt, readcnt, readarr, i, pushed, polls>>
envvars == <<boot, mapcalls, shutdown_fn, spi_master, nullacc>>

\* one register access, as the register block sees it
Rd(off, val) == <<"r", off, val>>
Wr(off, val) == <<"w", off, val>>

\* mmio_writeb(val, spictrl_base + off) on the register block
StoreReg(r, off, val) == IF off \in DOMAIN r THEN [r EXCEPT ![off] = val] ELSE r

(* ---------------- helpers translated from the source ---------------- *)
\* strcmp(a, b): 0 exactly when the two strings are equal
strcmp(a, b) == IF a = b THEN 0 ELSE 1

cpu_is_loongson64c(c) ==
  IF strcmp(c, "3b1500") = 0 THEN 1
  ELSE IF strcmp(c, "3a2000") = 0 THEN 1
  ELSE IF strcmp(c, "3b2000") = 0 THEN 1
  ELSE IF strcmp(c, "3a3000") = 0 THEN 1
  ELSE IF strcmp(c, "3b3000") = 0 THEN 1
  ELSE 0

\* strncmp over the length of the model name: a longer identifier passes too
cpu_is_loongson64g_prefix(c) ==
  IF c \in {"3a4000", "3a40000"} THEN 1
  ELSE IF c = "3b4000" THEN 1
  ELSE 0

cpu_is_loongson64g(c) ==
  IF strcmp(c, "3a4000") = 0 THEN 1
  ELSE IF strcmp(c, "3b4000") = 0 THEN 1
  ELSE 0

\* the two base addresses exchanged
MapRequest_swapped(c) ==
  IF cpu_is_loongson64c(c) # 0
    THEN [descr |-> "Loongson64C SPICTRL", phys |-> LOONGSON64G_SPI_BASE,
          len |-> LOONGSON3_SPI_REG_SIZE]
    ELSE [descr |-> "Loongson64G SPICTRL", phys |-> LOONGSON64C_SPI_BASE,
          len |-> LOONGSON3_SPI_REG_SIZE]

\* the rphysmap call init makes for a recognized cpu
MapRequest(c) ==
  IF cpu_is_loongson64c(c) # 0
    THEN [descr |-> "Loongson64C SPICTRL", phys |-> LOONGSON64C_SPI_BASE,
          len |-> LOONGSON3_SPI_REG_SIZE]
    ELSE [descr |-> "Loongson64G SPICTRL", phys |-> LOONGSON64G_SPI_BASE,
          len |-> LOONGSON3_SPI_REG_SIZE]

\* a plain store of the two bits, dropping the rest of the register
EnableController_clobber(reg) == BitOr(SPCR_MSTR, SPCR_SPE)

\* reg |= SPCR_MSTR | SPCR_SPE
EnableController(reg) == BitOr(reg, BitOr(SPCR_MSTR, SPCR_SPE))

\* the mask applied without the complement: reg &= SFCP_MEMEN
DisableReadEngine_nocomplement(reg) == BitAnd(reg, SFCP_MEMEN)

\* reg &= ~SFCP_MEMEN
DisableReadEngine(reg) == BitAnd(reg, BitNot(SFCP_MEMEN))

\* reg |= SFCP_MEMEN
EnableReadEngine(reg) == BitOr(reg, SFCP_MEMEN)

\* the busy-wait's test negated: spins while a byte waits, leaves when none does
RfEmpty_inverted(status) == BitAnd(status, SPSR_RFEMPTY) = 0

\* the test taken on the write-FIFO-empty bit (1 << 2) instead
RfEmpty_wfempty(status) == BitAnd(status, 4) # 0

\* mmio_readb(spictrl_base + SPICTRL_SPSR) & SPSR_RFEMPTY
RfEmpty(status) == BitAnd(status, SPSR_RFEMPTY) # 0

\* the handle never found wanting: init goes on with whatever rphysmap returned
MapFailed_never(base) == FALSE

\* the check of the mapped handle: if (!spictrl_base)
MapFailed_inverted(base) == base # NULL
MapFailed(base) == base = NULL

\* the guard of loongson3_spi_shutdown: if (!spictrl_base)
ShutdownGuard(base) == base = NULL

\* the read phase going on from the byte after the last write-phase byte
ReadPhaseIndex_tail(k, wcnt) == wcnt + k

\* the writearr index the read phase loads in iteration k: writearr[i]
ReadPhaseIndex(k, wcnt) == k

\* the bytes a load of writearr[idx] can yield: the buffer's byte, or, past its
\* end, whatever the memory after it holds
LoadByte(w, idx) == IF idx < Len(w) THEN {w[idx + 1]} ELSE WriteBytes

\* the write loop running once more than writecnt (i <= writecnt)
WriteLoopCond_inclusive(k, wcnt) == k <= wcnt

\* for (i = 0; i < writecnt; i++) and for (i = 0; i < readcnt; i++)
WriteLoopCond(k, wcnt) == k < wcnt
ReadLoopCond(k, rcnt) == k < rcnt

\* every popped byte stored to readarr[0]
StoreResult_first(ra, k, v) == [ra EXCEPT ![1] = v]

\* readarr[i] = <the popped byte>
StoreResult(ra, k, v) == [ra EXCEPT ![k + 1] = v]

\* a busy-wait that had to spin reported as a failure
SendCommandStatus_stall == IF polls > 0 THEN 1 ELSE 0

\* the status send_command returns
SendCommandStatus == 0

\* the caller's result buffer before the call: no cell stored to
FreshReadarr == [k \in 1..(MaxXfer + 1) |-> UNSET]

SeqsUpTo(S, n) == UNION {[1..k -> S] : k \in 0..n}

\* register accesses are offsets from spictrl_base: remembers one made from NULL
ViaBase == nullacc \/ spictrl_base = NULL

(* ---------------- initial state: process start ---------------- *)
Init ==
  /\ pc = "start"
  /\ op = "none"
  /\ ret = UNSET
  /\ cpu = NULL
  /\ msg = ""
  /\ warned = FALSE
  /\ spictrl_base = NULL
  /\ \E a \in BootSPCR, b \in BootSFCP : boot = (SPICTRL_SPCR :> a) @@ (SPICTRL_SFCP :> b)
  /\ \E c \in BootSOFTCS : regs = boot @@ (SPICTRL_SOFTCS :> c)
  /\ log = <<>>
  /\ mapcalls = <<>>
  /\ shutdown_fn = FALSE
  /\ spi_master = FALSE
  /\ nullacc = FALSE
  /\ writearr = <<>>
  /\ writecnt = 0
  /\ readcnt = 0
  /\ readarr = FreshReadarr
  /\ i = 0
  /\ pushed = <<>>
  /\ polls = 0
  /\ drained = 0

(* ---------------- loongson3_spi_init ---------------- *)
\* cpu = extract_programmer_param("cpu")
init_param ==
  /\ pc = "start"
  /\ \E c \in CpuParams : cpu' = c
  /\ op' = "init"
  /\ pc' = "init_resolve"
  /\ UNCHANGED <<ret, msg, warned, spictrl_base, regs, log, drained>>
  /\ UNCHANGED envvars
  /\ UNCHANGED cmdvars

\* the checks of cpu, the mapping of the register block, the check of the handle
init_resolve ==
  /\ pc = "init_resolve"
  /\ cpu' = "freed"
  /\ IF cpu = NULL
       THEN /\ msg' = "No -cpu specified"
            /\ ret' = 1
            /\ pc' = "failed"
            /\ UNCHANGED <<spictrl_base, mapcalls>>
       ELSE IF cpu_is_loongson64c(cpu) # 0 \/ cpu_is_loongson64g(cpu) # 0
         THEN \E h \in {NULL, MAPPED} :
                /\ mapcalls' = Append(mapcalls, MapRequest(cpu))
                /\ spictrl_base' = h
                /\ IF MapFailed(h)
                     THEN /\ msg' = "Failed to map base"
                          /\ ret' = 1
                          /\ pc' = "failed"
                     ELSE /\ pc' = "init_probe"
                          /\ UNCHANGED <<msg, ret>>
         ELSE /\ msg' = "Invalid -cpu specified"
              /\ ret' = 1
              /\ pc' = "failed"
              /\ UNCHANGED <<spictrl_base, mapcalls>>
  /\ UNCHANGED <<op, warned, regs, log, drained>>
  /\ UNCHANGED <<boot, shutdown_fn, spi_master, nullacc>>
  /\ UNCHANGED cmdvars

\* register_shutdown's return value dropped: init goes on when it failed
init_probe_ignored ==
  /\ pc = "init_probe"
  /\ LET reg == regs[SPICTRL_SFCP] IN
       /\ log' = Append(log, Rd(SPICTRL_SFCP, reg))
       /\ warned' = (BitAnd(reg, SFCP_MEMEN) = 0)
  /\ nullacc' = ViaBase
  /\ \E failed \in BOOLEAN : shutdown_fn' = ~failed
  /\ pc' = "init_deassert"
  /\ UNCHANGED <<op, ret, cpu, msg, spictrl_base, regs, drained>>
  /\ UNCHANGED <<boot, mapcalls, spi_master>>
  /\ UNCHANGED cmdvars

\* the probe of the read engine, then register_shutdown
init_probe ==
  /\ pc = "init_probe"
  /\ LET reg == regs[SPICTRL_SFCP] IN
       /\ log' = Append(log, Rd(SPICTRL_SFCP, reg))
       /\ warned' = (BitAnd(reg, SFCP_MEMEN) = 0)
  /\ nullacc' = ViaBase
  /\ \E failed \in BOOLEAN :
       IF failed
         THEN /\ ret' = 1
              /\ pc' = "failed"
              /\ UNCHANGED shutdown_fn
         ELSE /\ shutdown_fn' = TRUE
              /\ pc' = "init_deassert"
              /\ UNCHANGED ret
  /\ UNCHANGED <<op, cpu, msg, spictrl_base, regs, drained>>
  /\ UNCHANGED <<boot, mapcalls, spi_master>>
  /\ UNCHANGED cmdvars

\* Dessert CS
init_deassert ==
  /\ pc = "init_deassert"
  /\ regs' = StoreReg(regs, SPICTRL_SOFTCS, SOFTCS_DESSERT)
  /\ log' = Append(log, Wr(SPICTRL_SOFTCS, SOFTCS_DESSERT))
  /\ nullacc' = ViaBase
  /\ pc' = "init_enable"
  /\ UNCHANGED <<op, ret, cpu, msg, warned, spictrl_base, drained>>
  /\ UNCHANGED <<boot, mapcalls, shutdown_fn, spi_master>>
  /\ UNCHANGED cmdvars

\* Enable SPI Controller
init_enable ==
  /\ pc = "init_enable"
  /\ LET reg == regs[SPICTRL_SPCR] IN
       /\ regs' = StoreReg(regs, SPICTRL_SPCR, EnableController(reg))
       /\ log' = log \o <<Rd(SPICTRL_SPCR, reg), Wr(SPICTRL_SPCR, EnableController(reg))>>
  /\ nullacc' = ViaBase
  /\ pc' = "init_disable"
  /\ UNCHANGED <<op, ret, cpu, msg, warned, spictrl_base, drained>>
  /\ UNCHANGED <<boot, mapcalls, shutdown_fn, spi_master>>
  /\ UNCHANGED cmdvars

\* register_spi_master called here, ahead of the drain
init_disable_registers ==
  /\ pc = "init_disable"
  /\ LET reg == regs[SPICTRL_SFCP] IN
       /\ regs' = StoreReg(regs, SPICTRL_SFCP, DisableReadEngine(reg))
       /\ log' = log \o <<Rd(SPICTRL_SFCP, reg), Wr(SPICTRL_SFCP, DisableReadEngine(reg))>>
  /\ nullacc' = ViaBase
  /\ spi_master' = TRUE
  /\ pc' = "init_drain"
  /\ UNCHANGED <<op, ret, cpu, msg, warned, spictrl_base, drained>>
  /\ UNCHANGED <<boot, mapcalls, shutdown_fn>>
  /\ UNCHANGED cmdvars

\* Disable read engine for software control
init_disable ==
  /\ pc = "init_disable"
  /\ LET reg == regs[SPICTRL_SFCP] IN
       /\ regs' = StoreReg(regs, SPICTRL_SFCP, DisableReadEngine(reg))
       /\ log' = log \o <<Rd(SPICTRL_SFCP, reg), Wr(SPICTRL_SFCP, DisableReadEngine(reg))>>
  /\ nullacc' = ViaBase
  /\ pc' = "init_drain"
  /\ UNCHANGED <<op, ret, cpu, msg, warned, spictrl_base, drained>>
  /\ UNCHANGED <<boot, mapcalls, shutdown_fn, spi_master>>
  /\ UNCHANGED cmdvars

\* the condition of the drain loop: one poll of Status
init_drain_poll ==
  /\ pc = "init_drain"
  /\ \E s \in StatusVals :
       /\ RfEmpty(s) \/ drained < MaxDrain
       /\ log' = Append(log, Rd(SPICTRL_SPSR, s))
       /\ IF ~RfEmpty(s)
            THEN /\ pc' = "init_drain_pop"
                 /\ drained' = drained + 1
            ELSE /\ pc' = "init_register"
                 /\ UNCHANGED drained
  /\ nullacc' = ViaBase
  /\ UNCHANGED <<op, ret, cpu, msg, warned, spictrl_base, regs>>
  /\ UNCHANGED <<boot, mapcalls, shutdown_fn, spi_master>>
  /\ UNCHANGED cmdvars

\* the body of the drain loop: one pop of the FIFO, discarded
init_drain_pop ==
  /\ pc = "init_drain_pop"
  /\ \E v \in FifoVals : log' = Append(log, Rd(SPICTRL_FIFO, v))
  /\ nullacc' = ViaBase
  /\ pc' = "init_drain"
  /\ UNCHANGED <<op, ret, cpu, msg, warned, spictrl_base, regs, drained>>
  /\ UNCHANGED <<boot, mapcalls, shutdown_fn, spi_master>>
  /\ UNCHANGED cmdvars

\* register_spi_master(&spi_master_loongson3); return 0
init_register ==
  /\ pc = "init_register"
  /\ spi_master' = TRUE
  /\ ret' = 0
  /\ pc' = "ready"
  /\ drained' = 0
  /\ UNCHANGED <<op, cpu, msg, warned, spictrl_base, regs, log>>
  /\ UNCHANGED <<boot, mapcalls, shutdown_fn, nullacc>>
  /\ UNCHANGED cmdvars

(* ---------------- loongson3_spi_send_command ---------------- *)
\* the call, with its arguments, and the assert of chip-select
cmd_begin ==
  /\ pc = "ready"
  /\ spi_master
  /\ \E w \in SeqsUpTo(WriteBytes, MaxXfer) :
       \E r \in 0..(MaxXfer - Len(w)) :
         /\ writearr' = w
         /\ writecnt' = Len(w)
         /\ readcnt' = r
  /\ readarr' = FreshReadarr
  /\ i' = 0
  /\ pushed' = <<>>
  /\ polls' = 0
  /\ op' = "cmd"
  /\ regs' = StoreReg(regs, SPICTRL_SOFTCS, SOFTCS_ASSERT)
  /\ log' = <<Wr(SPICTRL_SOFTCS, SOFTCS_ASSERT)>>
  /\ nullacc' = ViaBase
  /\ pc' = "w_loop"
  /\ UNCHANGED <<ret, cpu, msg, warned, spictrl_base, drained>>
  /\ UNCHANGED <<boot, mapcalls, shutdown_fn, spi_master>>

\* write loop: i < writecnt, push writearr[i]
cmd_write_push ==
  /\ pc = "w_loop"
  /\ WriteLoopCond(i, writecnt)
  /\ \E b \in LoadByte(writearr, i) : log' = Append(log, Wr(SPICTRL_FIFO, b))
  /\ pushed' = Append(pushed, i)
  /\ nullacc' = ViaBase
  /\ pc' = "w_wait"
  /\ UNCHANGED <<op, ret, cpu, msg, warned, spictrl_base, regs, drained>>
  /\ UNCHANGED <<boot, mapcalls, shutdown_fn, spi_master>>
  /\ UNCHANGED <<writearr, writecnt, readcnt, readarr, i, polls>>

\* write loop: one poll of the busy-wait
cmd_write_poll ==
  /\ pc = "w_wait"
  /\ \E s \in StatusVals :
       /\ ~RfEmpty(s) \/ polls < MaxPolls
       /\ log' = Append(log, Rd(SPICTRL_SPSR, s))
       /\ IF RfEmpty(s)
            THEN /\ polls' = polls + 1
                 /\ UNCHANGED pc
            ELSE /\ pc' = "w_pop"
                 /\ UNCHANGED polls
  /\ nullacc' = ViaBase
  /\ UNCHANGED <<op, ret, cpu, msg, warned, spictrl_base, regs, drained>>
  /\ UNCHANGED <<boot, mapcalls, shutdown_fn, spi_master>>
  /\ UNCHANGED <<writearr, writecnt, readcnt, readarr, i, pushed>>

\* a write loop that leaves the echoed byte in the FIFO; i++
cmd_write_pop_skipped ==
  /\ pc = "w_pop"
  /\ i' = i + 1
  /\ pc' = "w_loop"
  /\ UNCHANGED <<op, ret, cpu, msg, warned, spictrl_base, regs, log, drained>>
  /\ UNCHANGED <<boot, mapcalls, shutdown_fn, spi_master, nullacc>>
  /\ UNCHANGED <<writearr, writecnt, readcnt, readarr, pushed, polls>>

\* write loop: pop the echoed byte and drop it; i++
cmd_write_pop ==
  /\ pc = "w_pop"
  /\ \E v \in FifoVals : log' = Append(log, Rd(SPICTRL_FIFO, v))
  /\ i' = i + 1
  /\ nullacc' = ViaBase
  /\ pc' = "w_loop"
  /\ UNCHANGED <<op, ret, cpu, msg, warned, spictrl_base, regs, drained>>
  /\ UNCHANGED <<boot, mapcalls, shutdown_fn, spi_master>>
  /\ UNCHANGED <<writearr, writecnt, readcnt, readarr, pushed, polls>>

\* write loop left (i = writecnt); read loop entered with i = 0
cmd_write_done ==
  /\ pc = "w_loop"
  /\ ~WriteLoopCond(i, writecnt)
  /\ i' = 0
  /\ pc' = "r_loop"
  /\ UNCHANGED <<op, ret, cpu, msg, warned, spictrl_base, regs, log, drained>>
  /\ UNCHANGED envvars
  /\ UNCHANGED <<writearr, writecnt, readcnt, readarr, pushed, polls>>

\* read loop: i < readcnt, push writearr[i]
cmd_read_push ==
  /\ pc = "r_loop"
  /\ ReadLoopCond(i, readcnt)
  /\ \E b \in LoadByte(writearr, ReadPhaseIndex(i, writecnt)) :
       log' = Append(log, Wr(SPICTRL_FIFO, b))
  /\ pushed' = Append(pushed, ReadPhaseIndex(i, writecnt))
  /\ nullacc' = ViaBase
  /\ pc' = "r_wait"
  /\ UNCHANGED <<op, ret, cpu, msg, warned, spictrl_base, regs, drained>>
  /\ UNCHANGED <<boot, mapcalls, shutdown_fn, spi_master>>
  /\ UNCHANGED <<writearr, writecnt, readcnt, readarr, i, polls>>

\* a bounded wait: an empty answer ends the call with an error
cmd_read_poll_timeout ==
  /\ pc = "r_wait"
  /\ \E s \in StatusVals :
       /\ ~RfEmpty(s) \/ polls < MaxPolls
       /\ IF RfEmpty(s)
            THEN /\ polls' = polls + 1
                 /\ regs' = StoreReg(regs, SPICTRL_SOFTCS, SOFTCS_DESSERT)
                 /\ log' = log \o <<Rd(SPICTRL_SPSR, s), Wr(SPICTRL_SOFTCS, SOFTCS_DESSERT)>>
                 /\ ret' = 1
                 /\ pc' = "ready"
            ELSE /\ log' = Append(log, Rd(SPICTRL_SPSR, s))
                 /\ pc' = "r_pop"
                 /\ UNCHANGED <<polls, regs, ret>>
  /\ nullacc' = ViaBase
  /\ UNCHANGED <<op, cpu, msg, warned, spictrl_base, drained>>
  /\ UNCHANGED <<boot, mapcalls, shutdown_fn, spi_master>>
  /\ UNCHANGED <<writearr, writecnt, readcnt, readarr, i, pushed>>

\* read loop: one poll of the busy-wait
cmd_read_poll ==
  /\ pc = "r_wait"
  /\ \E s \in StatusVals :
       /\ ~RfEmpty(s) \/ polls < MaxPolls
       /\ log' = Append(log, Rd(SPICTRL_SPSR, s))
       /\ IF RfEmpty(s)
            THEN /\ polls' = polls + 1
                 /\ UNCHANGED pc
            ELSE /\ pc' = "r_pop"
                 /\ UNCHANGED polls
  /\ nullacc' = ViaBase
  /\ UNCHANGED <<op, ret, cpu, msg, warned, spictrl_base, regs, drained>>
  /\ UNCHANGED <<boot, mapcalls, shutdown_fn, spi_master>>
  /\ UNCHANGED <<writearr, writecnt, readcnt, readarr, i, pushed>>

\* read loop: readarr[i] = the popped byte; i++
cmd_read_pop ==
  /\ pc = "r_pop"
  /\ \E v \in FifoVals :
       /\ log' = Append(log, Rd(SPICTRL_FIFO, v))
       /\ readarr' = StoreResult(readarr, i, v)
  /\ i' = i + 1
  /\ nullacc' = ViaBase
  /\ pc' = "r_loop"
  /\ UNCHANGED <<op, ret, cpu, msg, warned, spictrl_base, regs, drained>>
  /\ UNCHANGED <<boot, mapcalls, shutdown_fn, spi_master>>
  /\ UNCHANGED <<writearr, writecnt, readcnt, pushed, polls>>

\* the return taken without the deassert of chip-select
cmd_end_asserted ==
  /\ pc = "r_loop"
  /\ ~ReadLoopCond(i, readcnt)
  /\ ret' = SendCommandStatus
  /\ pc' = "ready"
  /\ UNCHANGED <<op, cpu, msg, warned, spictrl_base, regs, log, drained>>
  /\ UNCHANGED envvars
  /\ UNCHANGED cmdvars

\* read loop left: deassert chip-select, return 0
cmd_end ==
  /\ pc = "r_loop"
  /\ ~ReadLoopCond(i, readcnt)
  /\ regs' = StoreReg(regs, SPICTRL_SOFTCS, SOFTCS_DESSERT)
  /\ log' = Append(log, Wr(SPICTRL_SOFTCS, SOFTCS_DESSERT))
  /\ nullacc' = ViaBase
  /\ ret' = SendCommandStatus
  /\ pc' = "ready"
  /\ UNCHANGED <<op, cpu, msg, warned, spictrl_base, drained>>
  /\ UNCHANGED <<boot, mapcalls, shutdown_fn, spi_master>>
  /\ UNCHANGED cmdvars

(* ---------------- loongson3_spi_shutdown ---------------- *)
\* the registered teardown callback, run once at process exit
shutdown ==
  /\ pc = "ready"
  /\ shutdown_fn
  /\ op' = "shutdown"
  /\ IF ShutdownGuard(spictrl_base)
       THEN LET reg == regs[SPICTRL_SFCP] IN
              /\ regs' = StoreReg(StoreReg(regs, SPICTRL_SOFTCS, 0),
                                  SPICTRL_SFCP, EnableReadEngine(reg))
              /\ log' = <<Wr(SPICTRL_SOFTCS, 0), Rd(SPICTRL_SFCP, reg),
                          Wr(SPICTRL_SFCP, EnableReadEngine(reg))>>
              /\ nullacc' = ViaBase
       ELSE /\ log' = <<>>
            /\ UNCHANGED <<regs, nullacc>>
  /\ ret' = 0
  /\ pc' = "exited"
  /\ UNCHANGED <<cpu, msg, warned, spictrl_base, drained>>
  /\ UNCHANGED <<boot, mapcalls, shutdown_fn, spi_master>>
  /\ UNCHANGED cmdvars

(* ---------------- the driver's life ---------------- *)
Next ==
  \/ init_param
  \/ init_resolve
  \/ init_probe
  \/ init_deassert
  \/ init_enable
  \/ init_disable
  \/ init_drain_poll
  \/ init_drain_pop
  \/ init_register
  \/ cmd_begin
  \/ cmd_write_push
  \/ cmd_write_poll
  \/ cmd_write_pop
  \/ cmd_write_done
  \/ cmd_read_push
  \/ cmd_read_poll
  \/ cmd_read_pop
  \/ cmd_end
  \/ shutdown

Spec == Init /\ [][Next]_vars

\* the steps inside a send_command call: the driver is one synchronous thread,
\* a call that can take its next step takes it
CmdSteps ==
  \/ cmd_write_push
  \/ cmd_write_poll
  \/ cmd_write_pop
  \/ cmd_write_done
  \/ cmd_read_push
  \/ cmd_read_poll
  \/ cmd_read_pop
  \/ cmd_end

\* the driver with a hardware that answers "read FIFO empty" at most MaxPolls
\* times in a call, and a call that keeps running
LiveSpec == Spec /\ WF_vars(CmdSteps)

(* ======================= the claims ======================= *)
\* what the register block saw, read off the log
IsStatusRead(e) == e[1] = "r" /\ e[2] = 1
IsFifoRead(e) == e[1] = "r" /\ e[2] = 2
IsFifoWrite(e) == e[1] = "w" /\ e[2] = 2
\* a Status byte whose bit 0 (read FIFO empty) is clear
ShowsNonEmpty(e) == e[3] % 2 = 0
\* bit n of byte v
Bit(v, n) == (v \div (2 ^ n)) % 2
FifoWrites(l) == SelectSeq(l, IsFifoWrite)
FifoReads(l) == SelectSeq(l, IsFifoRead)

\* C1: whenever shutdown runs after a successful init, it writes the deasserted
\* encoding to Soft-Chip-Select and then sets bit 0 of Read-Engine-Enable, so
\* the read engine is enabled again when it returns.
C1_ShutdownRestoresReadEngine ==
  (op = "shutdown" /\ pc = "exited") =>
    /\ Len(log) >= 2
    /\ log[1] = <<"w", 5, 17>>
    /\ log[Len(log)][1] = "w" /\ log[Len(log)][2] = 4 /\ Bit(log[Len(log)][3], 0) = 1
    /\ regs[5] = 17
    /\ Bit(regs[4], 0) = 1

\* C2 as stated: the j-th read-phase push loads the write buffer at index
\* writecnt + j.
C2_ReadPhaseContinuesPastWrite ==
  op = "cmd" =>
    \A k \in 1..Len(pushed) : k > writecnt => pushed[k] = writecnt + (k - writecnt - 1)

\* C2 as amended: the j-th read-phase push loads the write buffer at index j
\* (the read phase starts over at index 0), and while j < writecnt the byte
\* pushed is writearr[j].
C2_ReadPhaseRestartsAtZero ==
  op = "cmd" =>
    /\ Len(FifoWrites(log)) = Len(pushed)
    /\ \A k \in 1..Len(pushed) :
         k > writecnt =>
           /\ pushed[k] = k - writecnt - 1
           /\ pushed[k] < writecnt => FifoWrites(log)[k][3] = writearr[pushed[k] + 1]

C2_Witness ==
  /\ op = "cmd" /\ pc = "ready"
  /\ writearr = <<159>> /\ readcnt = 2
  /\ pushed = <<0, 0, 1>>

\* C3: after a successful init Control has bits 4 and 6 set, Read-Engine-Enable
\* has bit 0 clear, and every other bit of both has its value from before init.
C3_InitReadModifyWrite ==
  (op = "init" /\ pc = "ready") =>
    /\ \A n \in 0..7 :
         Bit(regs[0], n) = IF n \in {4, 6} THEN 1 ELSE Bit(boot[0], n)
    /\ \A n \in 0..7 :
         Bit(regs[4], n) = IF n = 0 THEN 0 ELSE Bit(boot[4], n)

C3_Witness ==
  /\ op = "init" /\ pc = "ready"
  /\ boot[0] = 175 /\ regs[0] = 255
  /\ boot[4] = 255 /\ regs[4] = 254

\* the two groups of platform identifiers
Group64C == {"3b1500", "3a2000", "3b2000", "3a3000", "3b3000"}
Group64G == {"3a4000", "3b4000"}

\* C4: with the cpu identifier absent or outside the two groups, init returns
\* non-zero having made no register access, no mapping, no teardown
\* registration and no transport registration.
C4_UnrecognizedCpuAborts ==
  [][(pc = "init_resolve" /\ cpu \notin (Group64C \cup Group64G)) =>
       /\ pc' = "failed"
       /\ ret' # 0
       /\ log' = <<>>
       /\ regs' = regs
       /\ mapcalls' = <<>>
       /\ spictrl_base' = NULL
       /\ ~shutdown_fn'
       /\ ~spi_master']_vars

C4_Witness ==
  /\ op = "init" /\ pc = "failed"
  /\ msg = "Invalid -cpu specified"
  /\ ret = 1 /\ log = <<>> /\ mapcalls = <<>>

\* C5: for an identifier of the 64C group init maps 16 bytes at 0x1fe00220, for
\* one of the 64G group 16 bytes at 0x1fe001f0; no identifier is in both groups
\* and exactly one mapping is asked for.
C5_BasePerGroup ==
  [][pc = "init_resolve" =>
       /\ cpu \in Group64C =>
            mapcalls' = <<[descr |-> "Loongson64C SPICTRL", phys |-> 534774304, len |-> 16]>>
       /\ cpu \in Group64G =>
            mapcalls' = <<[descr |-> "Loongson64G SPICTRL", phys |-> 534774256, len |-> 16]>>
       /\ cpu # NULL => ~(cpu_is_loongson64c(cpu) # 0 /\ cpu_is_loongson64g(cpu) # 0)]_vars

C5_Witness ==
  /\ op = "init" /\ pc = "init_probe"
  /\ spictrl_base # NULL
  /\ mapcalls = <<[descr |-> "Loongson64C SPICTRL", phys |-> 534774304, len |-> 16]>>

\* the accesses of init's drain loop: its Status polls and FIFO pops
DrainLog == SelectSeq(log, LAMBDA e : e[2] \in {1, 2})
\* K polls showing non-empty, each followed by one pop, so far
DrainPrefix(d) ==
  \A p \in 1..Len(d) :
    IF p % 2 = 1
      THEN IsStatusRead(d[p]) /\ (p < Len(d) => ShowsNonEmpty(d[p]))
      ELSE IsFifoRead(d[p]) /\ ShowsNonEmpty(d[p - 1])
\* ... and then one poll showing empty
DrainComplete(d) ==
  Len(d) % 2 = 1 /\ IsStatusRead(d[Len(d)]) /\ ~ShowsNonEmpty(d[Len(d)])

\* C6: when Status shows the read FIFO non-empty for the first K polls of the
\* drain and empty on the next, init pops the FIFO exactly K times, each pop
\* right after a poll that showed non-empty, and only then registers the
\* transport; with K = 0 it pops nothing.
C6_DrainPopsPerNonEmptyPoll ==
  op = "init" =>
    /\ DrainPrefix(DrainLog)
    /\ pc \in {"init_register", "ready"} => DrainComplete(DrainLog)
    /\ spi_master => DrainComplete(DrainLog)
    /\ pc = "init_drain" => Len(DrainLog) % 2 = 0
    /\ Len(FifoReads(log)) = Len(DrainLog) \div 2

C6_Witness ==
  /\ op = "init" /\ pc = "ready" /\ spi_master
  /\ Len(DrainLog) = 5
  /\ Len(FifoReads(log)) = 2

\* the FIFO and Status accesses of a call, chip-select writes left out
Body(l) == SelectSeq(l, LAMBDA e : e[2] # 5)
PushPos(b) == {p \in 1..Len(b) : IsFifoWrite(b[p])}
KthPush(b, k) == CHOOSE p \in PushPos(b) : Cardinality({q \in PushPos(b) : q <= p}) = k
\* the k-th exchange: from the k-th push up to the access before the next push
Exchange(b, k) ==
  LET p == KthPush(b, k)
      later == {q \in PushPos(b) : q > p}
      last == IF later = {} THEN Len(b) ELSE (CHOOSE q \in later : \A r \in later : q <= r) - 1
  IN SubSeq(b, p, last)
\* after the push: polls that showed empty, one poll that showed non-empty, one
\* pop, nothing more (as far as the exchange has got)
ExchangeOK(x) ==
  \A q \in 2..Len(x) :
    \/ /\ IsStatusRead(x[q])
       /\ q > 2 => (IsStatusRead(x[q - 1]) /\ ~ShowsNonEmpty(x[q - 1]))
    \/ /\ IsFifoRead(x[q])
       /\ q > 2 /\ q = Len(x)
       /\ IsStatusRead(x[q - 1]) /\ ShowsNonEmpty(x[q - 1])
ExchangeDone(x) == Len(x) >= 3 /\ IsFifoRead(x[Len(x)])
InWritePhase == pc \in {"w_loop", "w_wait", "w_pop"}

\* C7: send_command with no write bytes and readcnt = 0 makes exactly two
\* register accesses, the assert and then the deassert of Soft-Chip-Select, and
\* stores nothing to the result.
C7_EmptyCommandTogglesChipSelect ==
  (op = "cmd" /\ writecnt = 0 /\ readcnt = 0) =>
    /\ readarr = FreshReadarr
    /\ IF pc = "ready"
         THEN log = <<(<<"w", 5, 1>>), (<<"w", 5, 17>>)>>
         ELSE log = <<(<<"w", 5, 1>>)>>

C7_Witness ==
  /\ op = "cmd" /\ pc = "ready" /\ writecnt = 0 /\ readcnt = 0
  /\ Len(log) = 2 /\ regs[5] = 17

\* C8: the write phase pushes writearr[0..n-1] in index order; each push is
\* followed, before the next push, by Status polls up to the first that shows
\* the read FIFO non-empty and then by exactly one FIFO pop; it makes n pushes
\* and n pops and stores nothing to the result.
C8_WritePhaseExchanges ==
  op = "cmd" =>
    LET b == Body(log)
        n == Len(FifoWrites(log))
    IN /\ b # <<>> => IsFifoWrite(b[1])
       /\ \A k \in 1..n :
            k <= writecnt =>
              /\ b[KthPush(b, k)] = <<"w", 2, writearr[k]>>
              /\ ExchangeOK(Exchange(b, k))
              /\ (k < n \/ ~InWritePhase) => ExchangeDone(Exchange(b, k))
       /\ InWritePhase => (n <= writecnt /\ readarr = FreshReadarr)
       /\ ~InWritePhase => n >= writecnt
       /\ (pc = "r_loop" /\ i = 0) =>
            /\ n = writecnt
            /\ Len(FifoReads(log)) = writecnt
            /\ readarr = FreshReadarr
       /\ (pc = "ready" /\ readcnt = 0) => (n = writecnt /\ readarr = FreshReadarr)

C8_Witness ==
  /\ op = "cmd" /\ pc = "ready"
  /\ writearr = <<170, 159>> /\ readcnt = 0
  /\ Len(log) = 9
  /\ Len(FifoReads(log)) = 2

\* C9: when send_command returns, the result holds exactly readcnt bytes and
\* its i-th byte is the byte popped in the i-th read-phase iteration, popped
\* only after a poll that showed the read FIFO non-empty after that
\* iteration's push; no write-phase pop is in the result.
C9_ResultIsReadPhasePops ==
  op = "cmd" =>
    LET b == Body(log)
        n == Len(FifoWrites(log))
        pops == FifoReads(log)
        rp == IF Len(pops) > writecnt THEN Len(pops) - writecnt ELSE 0
    IN /\ rp <= readcnt
       /\ pc = "ready" => rp = readcnt
       /\ \A k \in 1..Len(readarr) :
            readarr[k] = IF k <= rp THEN pops[writecnt + k][3] ELSE UNSET
       /\ \A k \in 1..n :
            k > writecnt =>
              /\ ExchangeOK(Exchange(b, k))
              /\ (k < n \/ pc = "ready") => ExchangeDone(Exchange(b, k))

C9_Witness ==
  /\ op = "cmd" /\ pc = "ready"
  /\ writecnt = 1 /\ readcnt = 2
  /\ readarr[1] = 64 /\ readarr[2] = 239 /\ readarr[3] = UNSET
  /\ FifoReads(log)[1][3] = 239

\* C10: every send_command call that returns, returns 0, whatever the write
\* bytes, the read count and the answers of the hardware were.
C10_SendCommandReturnsZero ==
  (op = "cmd" /\ pc = "ready") => ret = 0

C10_Witness ==
  /\ op = "cmd" /\ pc = "ready" /\ ret = 0
  /\ polls > 0 /\ writecnt > 0 /\ readcnt > 0

IsWrite(e) == e[1] = "w"
RegWrites(l) == SelectSeq(l, IsWrite)
\* byte v with bits 4 and 6 set; byte v with bit 0 cleared
WithMasterEnable(v) ==
  v + (IF Bit(v, 4) = 0 THEN 16 ELSE 0) + (IF Bit(v, 6) = 0 THEN 64 ELSE 0)
WithoutBit0(v) == v - Bit(v, 0)
\* the register writes of a successful init, in order
InitWrites ==
  <<(<<"w", 5, 17>>), (<<"w", 0, WithMasterEnable(boot[0])>>), (<<"w", 4, WithoutBit0(boot[4])>>)>>

\* C11: in init the teardown callback is registered before the first register
\* write; the writes are Soft-Chip-Select := deassert, Control := Control |
\* master | enable, Read-Engine-Enable := Read-Engine-Enable without bit 0, in
\* that order; the drain follows them; the transport is registered last, after
\* the drain, and on no failing path.
C11_InitOrder ==
  op = "init" =>
    LET w == RegWrites(log) IN
      /\ Len(w) <= 3
      /\ \A k \in 1..Len(w) : w[k] = InitWrites[k]
      /\ Len(w) > 0 => shutdown_fn
      /\ \A p \in 1..Len(log) :
           log[p][2] \in {1, 2} =>
             /\ Len(w) = 3
             /\ \A q \in 1..Len(log) : IsWrite(log[q]) => q < p
      /\ spi_master => (pc = "ready" /\ Len(w) = 3 /\ DrainComplete(DrainLog))
      /\ pc = "ready" => (spi_master /\ ret = 0)
      /\ pc = "failed" => (~spi_master /\ ret # 0)

C11_Witness ==
  /\ op = "init" /\ pc = "ready" /\ spi_master /\ shutdown_fn
  /\ Len(log) = 9 /\ Len(DrainLog) = 3

\* C12: when registering the teardown callback fails, init returns non-zero
\* having made one register access, the read of Read-Engine-Enable; nothing
\* was written, the FIFO was not popped and the transport is not registered.
C12_TeardownRegistrationFails ==
  (op = "init" /\ spictrl_base # NULL /\ ~shutdown_fn /\ pc # "init_probe") =>
    /\ pc = "failed"
    /\ ret # 0
    /\ log = <<(<<"r", 4, boot[4]>>)>>
    /\ regs[0] = boot[0] /\ regs[4] = boot[4]
    /\ ~spi_master

C12_Witness ==
  /\ op = "init" /\ pc = "failed" /\ spictrl_base # NULL /\ ~shutdown_fn
  /\ ret = 1 /\ Len(log) = 1 /\ warned

\* C13: when the identifier is recognized and the mapping service returns a
\* null handle, init returns non-zero with no register access, no teardown
\* callback registered and no transport registered.
C13_MapFailureAborts ==
  (op = "init" /\ mapcalls # <<>> /\ spictrl_base = NULL) =>
    /\ pc = "failed"
    /\ ret # 0
    /\ log = <<>>
    /\ regs[0] = boot[0] /\ regs[4] = boot[4]
    /\ ~shutdown_fn
    /\ ~spi_master

C13_Witness ==
  /\ op = "init" /\ pc = "failed" /\ Len(mapcalls) = 1 /\ spictrl_base = NULL
  /\ ret = 1 /\ msg = "Failed to map base" /\ log = <<>>

\* C14: in each send_command call the write of the assert encoding to
\* Soft-Chip-Select is the first access and the write of the deassert encoding
\* the last, with every FIFO push, Status poll and FIFO pop between them; so
\* after a successful init and any completed calls Soft-Chip-Select holds the
\* deassert encoding whenever no transaction is executing.
C14_ChipSelectBrackets ==
  /\ op = "cmd" =>
       /\ Len(log) >= 1 /\ log[1] = <<"w", 5, 1>>
       /\ \A p \in 2..Len(log) :
            log[p][2] = 5 => (p = Len(log) /\ pc = "ready" /\ log[p] = <<"w", 5, 17>>)
       /\ pc = "ready" => (Len(log) >= 2 /\ log[Len(log)] = <<"w", 5, 17>>)
       /\ pc # "ready" => regs[5] = 1
  /\ (pc = "ready" /\ op \in {"init", "cmd"}) => regs[5] = 17

C14_Witness ==
  /\ op = "cmd" /\ pc = "ready" /\ regs[5] = 17
  /\ writecnt = 1 /\ readcnt = 1
  /\ Len(log) = 8

\* C15: from the return of a successful init to the invocation of shutdown,
\* at every step of every send_command call, bit 0 of Read-Engine-Enable is
\* clear and bits 4 and 6 of Control are set; send_command writes only to
\* Soft-Chip-Select and the FIFO and leaves Control and Read-Engine-Enable as
\* init left them.
C15_EngineOffWhileDriving ==
  (spi_master /\ pc # "exited") =>
    /\ Bit(regs[4], 0) = 0
    /\ Bit(regs[0], 4) = 1 /\ Bit(regs[0], 6) = 1
    /\ regs[0] = WithMasterEnable(boot[0])
    /\ regs[4] = WithoutBit0(boot[4])
    /\ op = "cmd" => \A p \in 1..Len(log) : IsWrite(log[p]) => log[p][2] \in {2, 5}

C15_Witness ==
  /\ op = "cmd" /\ pc = "r_wait" /\ spi_master
  /\ boot[4] = 255 /\ regs[4] = 254 /\ regs[0] = 255
  /\ Len(FifoWrites(log)) = 2

InCall == op = "cmd" /\ pc # "ready"
Returned == op = "cmd" /\ pc = "ready"
\* one step out of a busy-wait: the poll answered empty and the call waits on
\* with chip-select asserted and nothing returned, or it answered non-empty
\* and the pop is next
WaitStep ==
  pc \in {"w_wait", "r_wait"} =>
    \E e \in {<<"r", 1, s>> : s \in 0..255} :
      /\ log' = Append(log, e)
      /\ IF ShowsNonEmpty(e)
           THEN pc' = (IF pc = "w_wait" THEN "w_pop" ELSE "r_pop")
           ELSE pc' = pc /\ regs'[5] = 1 /\ ret' = ret /\ op' = "cmd"
      /\ i' = i /\ readarr' = readarr

\* C16: when Status shows the read FIFO non-empty some time after every push,
\* a send_command call returns, after exactly writecnt + readcnt pushes and as
\* many pops; a busy-wait is left only by a poll that shows non-empty: while
\* Status shows empty the call stays in its wait, returns nothing, reports no
\* error and keeps chip-select asserted.
C16_ReturnsIffFifoAnswers ==
  /\ InCall ~> Returned
  /\ [](Returned =>
          /\ Len(FifoWrites(log)) = writecnt + readcnt
          /\ Len(FifoReads(log)) = writecnt + readcnt
          /\ ret = 0)
  /\ [][WaitStep]_vars

C16_Witness ==
  /\ Returned /\ ret = 0
  /\ polls = 1 /\ writecnt = 1 /\ readcnt = 2
  /\ Len(FifoReads(log)) = 3
  /\ \E p \in 1..Len(log) : IsStatusRead(log[p]) /\ ~ShowsNonEmpty(log[p])

\* C17: the push of the j-th read-phase iteration (j = 0 .. readcnt-1) carries
\* writearr[j], the byte the j-th write-phase iteration pushed.
C17_ReadPhaseRepeatsWriteBytes ==
  op = "cmd" =>
    LET pw == FifoWrites(log) IN
      \A k \in 1..Len(pw) :
        k > writecnt =>
          LET j == k - writecnt IN
            /\ j <= writecnt
            /\ pw[k] = <<"w", 2, writearr[j]>>
            /\ pw[k] = pw[j]

\* C18: every byte send_command pushes, in either phase, is loaded from the
\* write buffer at an index in 0 .. writecnt-1.
C18_PushesLoadInsideWriteBuffer ==
  op = "cmd" => \A k \in 1..Len(pushed) : pushed[k] \in 0..(writecnt - 1)

\* C19: at every point of a send_command call the FIFO pushes made so far
\* exceed the FIFO pops made so far by 0 or 1, in every prefix of the call's
\* accesses, and at return both numbers are writecnt + readcnt.
C19_FifoOccupancy ==
  op = "cmd" =>
    /\ \A n \in 0..Len(log) :
         LET pre == SubSeq(log, 1, n) IN
           Len(FifoWrites(pre)) - Len(FifoReads(pre)) \in {0, 1}
    /\ pc \in {"w_loop", "r_loop", "ready"} =>
         Len(FifoWrites(log)) = Len(FifoReads(log))
    /\ pc = "ready" =>
         /\ Len(FifoWrites(log)) = writecnt + readcnt
         /\ Len(FifoReads(log)) = writecnt + readcnt

C19_Witness ==
  /\ op = "cmd" /\ pc = "r_wait"
  /\ writecnt = 2 /\ readcnt = 1
  /\ Len(FifoWrites(log)) = 3 /\ Len(FifoReads(log)) = 2

\* C20: with shutdown run only as the registered teardown and send_command
\* only after a successful init, no register access goes through a null
\* spictrl_base: the teardown and the transport are registered only with a
\* non-null base, every access finds the base non-null, and the base, once
\* set, never changes.
C20_NoAccessThroughNullBase ==
  /\ ~nullacc
  /\ shutdown_fn => spictrl_base # NULL
  /\ spi_master => spictrl_base # NULL
  /\ log # <<>> => spictrl_base # NULL
  /\ pc \in {"init_probe", "init_deassert", "init_enable", "init_disable",
             "init_drain", "init_drain_pop", "init_register", "ready",
             "w_loop", "w_wait", "w_pop", "r_loop", "r_wait", "r_pop",
             "exited"} => spictrl_base = "mapped"

C20_Witness ==
  /\ pc = "exited" /\ op = "shutdown"
  /\ shutdown_fn /\ spi_master
  /\ writecnt + readcnt > 0 /\ Len(pushed) > 0
  /\ spictrl_base # NULL /\ ~nullacc

====
